---- MODULE Spec2Model ----
(***************************************************************************)
(* Account pool orchestration and health monitoring of the sales bot:      *)
(*   AccountManager  (src/sales_bot/accounts/manager.py)                   *)
(*   AccountMonitor  (src/sales_bot/accounts/monitoring.py)                *)
(*   Account         (src/sales_bot/db/models.py)                          *)
(* The account store (AccountQueries), the remote session (AccountClient), *)
(* the safety policy (AccountSafety) and the notifier are collaborators    *)
(* whose code is not part of the sources; what they do is taken from the   *)
(* way the two classes call them and from the specification.  Every        *)
(* coroutine is cut at the awaits at which shared state is read or         *)
(* written; the steps between two such awaits are atomic, as they are      *)
(* under a single asyncio event loop.                                      *)
(***************************************************************************)
EXTENDS Integers, Sequences, FiniteSets, TLC

\* ------------------------------------------------------------------ bounds
\* Calls started in one behaviour of the monitor's specification (SpecMon),
\* of the manager's (SpecSend) and of the whole program's (Spec).
MaxChecks == 4      \* check_account calls, SpecMon
MaxCalls == 4       \* account reads and send_message calls of the callers, SpecSend
MaxAdmin == 1       \* administrative / external operations, SpecMon and SpecSend
AllChecks == 2      \* check_account calls, Spec
AllCalls == 2       \* account reads and send_message calls, Spec
AllAdmin == 1       \* administrative / external operations, Spec

\* ------------------------------------------------------- program constants
MAX_DAILY_MESSAGES == 2     \* config.MAX_DAILY_MESSAGES, the daily cap

Ids == {1, 2}               \* account ids; account a has phone a
Senders == {"s1", "s2"}     \* concurrent callers of the AccountManager
Checkers == {"m1", "m2"}    \* concurrent callers of the AccountMonitor

ACTIVE == "active"
DISABLED == "disabled"
BLOCKED == "blocked"
AccountStatus == {ACTIVE, DISABLED, BLOCKED}

NoRow == "norow"            \* no row for this id yet
Deleted == "deleted"        \* the row was removed by an external operation
NoAccount == [id |-> 0, status |-> NoRow, daily_messages |-> 0]

VARIABLES
  \* the account store (table accounts), by id
  status, daily_messages, session_string,
  \* AccountManager
  active_clients,   \* _active_clients: id -> the sender whose client is cached
  connected,        \* id -> senders whose AccountClient is connected
  spc,              \* position of each send_message call
  held,             \* the Account object each caller holds
  sinfo,            \* per send_message call in progress: what it has done
  delivered,        \* id -> messages the remote session has sent
  \* AccountMonitor
  error_counts,     \* _error_counts: partial map id -> count
  mpc,              \* position of each check_account / check_all_accounts
  cur,              \* the Account object under check
  sweeping,         \* per checker: a check_all_accounts call is in progress
  queue,            \* the accounts the sweep has still to check
  stats,            \* the sweep's tally
  streak,           \* id -> non-terminal failures since the last clearing event
  \* what the step just taken returned or emitted (the empty value otherwise)
  mgrResult,        \* add_account / authorize_account: the call and its result
  lastSend,         \* the send_message call that ended
  last,             \* the check_account call that ended
  swept,            \* the sweep that ended: the tally the Notifier received
  notice,           \* the block / disable event the Notifier received
  \* the calls that may still be started
  checksLeft, callsLeft, adminLeft

storeVars == <<status, daily_messages, session_string>>
orchVars == <<active_clients, connected, spc, held, sinfo, delivered>>
monVars == <<error_counts, mpc, cur, sweeping, queue, stats, streak>>
outVars == <<mgrResult, lastSend, last, swept, notice>>
budgetVars == <<checksLeft, callsLeft, adminLeft>>
vars == <<storeVars, orchVars, monVars, outVars, budgetVars>>

\* ------------------------------------------------------------ the store
Exists(a) == status[a] \in AccountStatus

\* An Account object as a query returns it: a snapshot of the row.
Obj(a) == [id |-> a, status |-> status[a], daily_messages |-> daily_messages[a]]

\* AccountQueries.get_active_accounts: the rows with status active, by id.
RECURSIVE ActiveFrom(_)
ActiveFrom(a) ==
  IF a \notin Ids THEN << >>
  ELSE IF status[a] = ACTIVE THEN <<Obj(a)>> \o ActiveFrom(a + 1)
  ELSE ActiveFrom(a + 1)

get_active_accounts == ActiveFrom(1)

\* ------------------------------------------------- dict helpers (Python)
DictGet(d, key, dflt) == IF key \in DOMAIN d THEN d[key] ELSE dflt

DictSet(d, key, v) == [x \in (DOMAIN d) \cup {key} |-> IF x = key THEN v ELSE d[x]]

DictPop(d, key) == [x \in (DOMAIN d) \ {key} |-> d[x]]

\* ------------------------------------------------------------- outputs
NoResult == <<"none", 0, "none">>
NoSend == [id |-> 0, pre |-> NoRow, sent |-> FALSE, recs |-> 0]
NoSent == [by |-> "none", id |-> 0, pre |-> NoRow, sent |-> FALSE, recs |-> 0,
           ret |-> "none", why |-> "none"]
NoCall == [by |-> "none", id |-> 0, outcome |-> "none", ret |-> "none", before |-> 0,
           closed |-> FALSE]
NoStats == [total |-> 0, active |-> 0, disabled |-> 0, blocked |-> 0]
NoSweep == [by |-> "none", ret |-> "none", tally |-> NoStats]
NoNotice == <<"none", 0>>

\* A step that ends no call and emits nothing.
Silent ==
  /\ mgrResult' = NoResult
  /\ lastSend' = NoSent
  /\ last' = NoCall
  /\ swept' = NoSweep
  /\ notice' = NoNotice

\* ------------------------------------------------------- AccountMonitor
\* What the remote session does during one check_account call: connect and
\* get_me succeed ("ok"), connect returns false, get_me returns nothing, or
\* one of them raises a terminal signal or any other error.  An exception of
\* the constructor AccountClient(account) is raised inside the same try block:
\* it is handled as "terminal" or "error", and the finally clause then raises
\* on the unbound name client, which is the disconnect outcome "raise".
CheckOutcomes == {"ok", "connect_false", "empty", "terminal", "error"}
DisconnectOutcomes == {"ok", "raise"}

\* check_account, success path: self._error_counts.pop(account.id, None)
ResetErrors(ec, a) == DictPop(ec, a)

\* check_account, except Exception: error_count = get(id, 0) + 1; store it
CountError(ec, a) == DictSet(ec, a, DictGet(ec, a, 0) + 1)

\* A threshold test that is off by one.
ShouldDisableLate(n) == n > 3

\* check_account: if error_count >= 3
ShouldDisable(n) == n >= 3

\* _mark_account_disabled writing the status of a working account.
MarkDisabledAsActive == ACTIVE

\* _mark_account_blocked / _mark_account_disabled: the status written
MarkBlockedStatus == BLOCKED

MarkDisabledStatus == DISABLED

\* A check_account that disconnects only after a successful probe.
DisconnectsOnSuccess(o) == o = "ok"

\* check_account, finally: await client.disconnect() runs on every path.
Disconnects(o) == TRUE

\* The value check_account returns; an exception raised by the finally
\* clause's disconnect replaces the return value.
CheckReturn(o, d) ==
  IF Disconnects(o) /\ d = "raise" THEN "raised" ELSE IF o = "ok" THEN "true" ELSE "false"

\* A tally that leaves out the accounts whose check failed.
TallyActiveOnly(st, ret, obj) == IF ret = "true" THEN [st EXCEPT !.active = @ + 1] ELSE st

\* check_all_accounts, the tally of one checked account.
Tally(st, ret, obj) ==
  IF ret = "true" THEN [st EXCEPT !.active = @ + 1]
  ELSE IF obj.status = BLOCKED THEN [st EXCEPT !.blocked = @ + 1]
  ELSE [st EXCEPT !.disabled = @ + 1]

\* The end of a check_account call of checker k: the finally clause
\* disconnects (d), the call returns or raises, and a sweep tallies the
\* account before its next await; an exception ends the sweep.  The sweep
\* reads account.status on the object it got from get_active_accounts;
\* whether that object shows a status written since (seen) is up to the
\* store's session, so both are possible.
Complete(k, o, d) ==
  LET ret == CheckReturn(o, d) IN
  /\ last' = [by |-> k, id |-> cur[k].id, outcome |-> o, ret |-> ret,
              before |-> DictGet(error_counts, cur[k].id, 0),
              closed |-> Disconnects(o) /\ d = "ok"]
  /\ cur' = [cur EXCEPT ![k] = NoAccount]
  /\ IF sweeping[k]
       THEN IF ret = "raised"
              THEN /\ sweeping' = [sweeping EXCEPT ![k] = FALSE]
                   /\ swept' = [by |-> k, ret |-> "raised", tally |-> NoStats]
                   /\ queue' = [queue EXCEPT ![k] = << >>]
                   /\ stats' = [stats EXCEPT ![k] = NoStats]
                   /\ mpc' = [mpc EXCEPT ![k] = "idle"]
              ELSE /\ \E seen \in {cur[k].status, status'[cur[k].id]} :
                        stats' = [stats EXCEPT
                                    ![k] = Tally(@, ret, [cur[k] EXCEPT !.status = seen])]
                   /\ mpc' = [mpc EXCEPT ![k] = "next"]
                   /\ swept' = NoSweep
                   /\ UNCHANGED <<sweeping, queue>>
       ELSE /\ mpc' = [mpc EXCEPT ![k] = "idle"]
            /\ swept' = NoSweep
            /\ UNCHANGED <<sweeping, queue, stats>>

\* A check_account that enters its client in the manager's cache.
CheckClientCached(clients, a) == [clients EXCEPT ![a] = "monitor"]

\* check_account: client = AccountClient(account), a client of the call's own
\* that is entered in no cache.
CheckClient(clients, a) == clients

\* The start of check_account(obj): client = AccountClient(account), then the
\* call awaits connect.
Begin(k, obj) ==
  /\ active_clients' = CheckClient(active_clients, obj.id)
  /\ cur' = [cur EXCEPT ![k] = obj]
  /\ mpc' = [mpc EXCEPT ![k] = "probe"]
  /\ queue' = [queue EXCEPT ![k] = IF sweeping[k] THEN Tail(@) ELSE @]

\* A direct call check_account(account) with an account read from the store.
CheckCall(k, a) ==
  /\ mpc[k] = "idle"
  /\ Exists(a)
  /\ checksLeft > 0
  /\ checksLeft' = checksLeft - 1
  /\ Begin(k, Obj(a))
  /\ Silent
  /\ UNCHANGED <<storeVars, connected, spc, held, sinfo, delivered,
                 error_counts, sweeping, stats, streak, callsLeft, adminLeft>>

\* check_account from the end of connect / get_me to the next await: the
\* outcome o of the session is classified and the counter updated.
CheckProbe(k, o, d) ==
  /\ mpc[k] = "probe"
  /\ UNCHANGED storeVars
  /\ LET a == cur[k].id IN
     CASE o = "ok" ->
            /\ error_counts' = ResetErrors(error_counts, a)
            /\ streak' = [streak EXCEPT ![a] = 0]
            /\ Complete(k, o, d)
       [] o \in {"connect_false", "empty"} ->
            /\ UNCHANGED <<error_counts, streak>>
            /\ Complete(k, o, d)
       [] o = "terminal" ->
            /\ mpc' = [mpc EXCEPT ![k] = "markB"]
            /\ last' = NoCall
            /\ swept' = NoSweep
            /\ UNCHANGED <<error_counts, streak, cur, sweeping, queue, stats>>
       [] o = "error" ->
            /\ error_counts' = CountError(error_counts, a)
            /\ streak' = [streak EXCEPT ![a] = @ + 1]
            /\ IF ShouldDisable(error_counts'[a])
                 THEN /\ mpc' = [mpc EXCEPT ![k] = "markD"]
                      /\ last' = NoCall
                      /\ swept' = NoSweep
                      /\ UNCHANGED <<cur, sweeping, queue, stats>>
                 ELSE Complete(k, o, d)
  /\ mgrResult' = NoResult
  /\ lastSend' = NoSent
  /\ notice' = NoNotice
  /\ UNCHANGED <<orchVars, budgetVars>>

\* _mark_account_blocked, then the rest of check_account's handler.
MarkBlocked(k, d) ==
  /\ mpc[k] = "markB"
  /\ LET a == cur[k].id IN
     /\ status' = IF Exists(a) THEN [status EXCEPT ![a] = MarkBlockedStatus] ELSE status
     /\ notice' = <<"blocked", IF Exists(a) THEN a ELSE 0>>
     /\ error_counts' = DictPop(error_counts, a)
     /\ streak' = [streak EXCEPT ![a] = 0]
     /\ Complete(k, "terminal", d)
  /\ mgrResult' = NoResult
  /\ lastSend' = NoSent
  /\ UNCHANGED <<daily_messages, session_string, orchVars, budgetVars>>

\* _mark_account_disabled, then the rest of check_account's handler.
MarkDisabled(k, d) ==
  /\ mpc[k] = "markD"
  /\ LET a == cur[k].id IN
     /\ IF Exists(a)
          THEN /\ status' = [status EXCEPT ![a] = MarkDisabledStatus]
               /\ notice' = <<"disabled", a>>
               /\ error_counts' = DictPop(error_counts, a)
               /\ streak' = [streak EXCEPT ![a] = 0]
          ELSE /\ notice' = NoNotice
               /\ UNCHANGED <<status, error_counts, streak>>
     /\ Complete(k, "error", d)
  /\ mgrResult' = NoResult
  /\ lastSend' = NoSent
  /\ UNCHANGED <<daily_messages, session_string, orchVars, budgetVars>>

\* check_all_accounts up to its first check: the active accounts are read and
\* counted.
SweepStart(k) ==
  /\ mpc[k] = "idle"
  /\ Len(get_active_accounts) <= checksLeft
  /\ checksLeft' = checksLeft - Len(get_active_accounts)
  /\ sweeping' = [sweeping EXCEPT ![k] = TRUE]
  /\ queue' = [queue EXCEPT ![k] = get_active_accounts]
  /\ stats' = [stats EXCEPT ![k] = [NoStats EXCEPT !.total = Len(get_active_accounts)]]
  /\ mpc' = [mpc EXCEPT ![k] = "next"]
  /\ Silent
  /\ UNCHANGED <<storeVars, orchVars, error_counts, cur, streak, callsLeft, adminLeft>>

\* check_all_accounts: the next iteration of the loop, or the report to the
\* notifier and the return of the tally.
SweepNext(k) ==
  /\ mpc[k] = "next"
  /\ IF queue[k] = << >>
       THEN /\ swept' = [by |-> k, ret |-> "returned", tally |-> stats[k]]
            /\ sweeping' = [sweeping EXCEPT ![k] = FALSE]
            /\ stats' = [stats EXCEPT ![k] = NoStats]
            /\ mpc' = [mpc EXCEPT ![k] = "idle"]
            /\ UNCHANGED <<cur, queue, active_clients>>
       ELSE /\ Begin(k, Head(queue[k]))
            /\ swept' = NoSweep
            /\ UNCHANGED <<sweeping, stats>>
  /\ mgrResult' = NoResult
  /\ lastSend' = NoSent
  /\ last' = NoCall
  /\ notice' = NoNotice
  /\ UNCHANGED <<storeVars, connected, spc, held, sinfo, delivered,
                 error_counts, streak, budgetVars>>

\* ------------------------------------------- administrative operations
\* AccountManager.update_account_status: delegates to the store, which sets
\* the status of the row with that phone (st is another status than the
\* row has).
UpdateStatus(a, st) ==
  /\ adminLeft > 0
  /\ Exists(a)
  /\ st # status[a]
  /\ adminLeft' = adminLeft - 1
  /\ status' = [status EXCEPT ![a] = st]
  /\ Silent
  /\ UNCHANGED <<daily_messages, session_string, orchVars, monVars, checksLeft, callsLeft>>

\* An external deletion of the row (not an operation of the two classes).
ExternalDelete(a) ==
  /\ adminLeft > 0
  /\ Exists(a)
  /\ adminLeft' = adminLeft - 1
  /\ status' = [status EXCEPT ![a] = Deleted]
  /\ Silent
  /\ UNCHANGED <<daily_messages, session_string, orchVars, monVars, checksLeft, callsLeft>>

\* ------------------------------------------------------- safety policy
\* Account.is_available
is_available(obj) == obj.status = ACTIVE /\ obj.daily_messages < MAX_DAILY_MESSAGES

\* AccountSafety.can_send_message(account): a synchronous call on the object
\* it is given, by an AccountSafety built without a store.
can_send_message(obj) == obj.status = ACTIVE /\ obj.daily_messages < MAX_DAILY_MESSAGES

\* AccountSafety.record_message(account): counts the message on the object.
record_message(obj) == [obj EXCEPT !.daily_messages = @ + 1]

\* AccountQueries.increment_messages(id): an atomic increment of the row.
increment_messages(dm, a) == IF Exists(a) THEN [dm EXCEPT ![a] = @ + 1] ELSE dm

\* ------------------------------------------------------ AccountManager
NoClient == "none"

ConnectOutcomes == {"true", "false", "raise"}
RemoteOutcomes == {"ok", "false", "terminal", "error"}   \* client.send_message
WriteOutcomes == {"ok", "raise"}

\* AccountManager.__init__ sets db, safety and _active_clients; it sets no
\* attribute queries, which authorize_account reads.
HasQueries == FALSE

\* add_account(phone): the store creates the row (when the phone is new), the
\* session connects and requests the code.  o is what the session does.
Enroll(a, o) ==
  /\ adminLeft > 0
  /\ adminLeft' = adminLeft - 1
  /\ IF status[a] = NoRow
       THEN /\ status' = [status EXCEPT ![a] = ACTIVE]
            /\ mgrResult' = <<"add", a, IF o = "true" THEN "account" ELSE "none">>
       ELSE /\ UNCHANGED status
            /\ mgrResult' = <<"add", a, "none">>
  /\ lastSend' = NoSent
  /\ last' = NoCall
  /\ swept' = NoSweep
  /\ notice' = NoNotice
  /\ UNCHANGED <<daily_messages, session_string, orchVars, monVars, checksLeft, callsLeft>>

\* authorize_account(phone, code): o is what the session does with the code.
Authorize(a, o) ==
  /\ adminLeft > 0
  /\ adminLeft' = adminLeft - 1
  /\ IF HasQueries /\ Exists(a) /\ o = "true"
       THEN /\ session_string' = [session_string EXCEPT ![a] = TRUE]
            /\ mgrResult' = <<"authorize", a, "true">>
       ELSE /\ UNCHANGED session_string
            /\ mgrResult' = <<"authorize", a, "false">>
  /\ lastSend' = NoSent
  /\ last' = NoCall
  /\ swept' = NoSweep
  /\ notice' = NoNotice
  /\ UNCHANGED <<status, daily_messages, orchVars, monVars, checksLeft, callsLeft>>

\* A selection that takes the first active account without asking whether it
\* may send.
FirstActive(accounts) == IF accounts = << >> THEN NoAccount ELSE Head(accounts)

\* get_available_account: the first active account that is available and that
\* the safety policy accepts, or None.
RECURSIVE FirstAvailable(_)
FirstAvailable(accounts) ==
  IF accounts = << >> THEN NoAccount
  ELSE IF is_available(Head(accounts)) /\ can_send_message(Head(accounts))
         THEN Head(accounts)
         ELSE FirstAvailable(Tail(accounts))

get_available_account == FirstAvailable(get_active_accounts)

\* A caller takes the account get_available_account returns.
Select(s) ==
  /\ spc[s] = "idle"
  /\ callsLeft > 0
  /\ callsLeft' = callsLeft - 1
  /\ held' = [held EXCEPT ![s] = get_available_account]
  /\ mgrResult' = <<"select", get_available_account.id,
                    IF get_available_account = NoAccount THEN "none" ELSE "account">>
  /\ lastSend' = NoSent
  /\ last' = NoCall
  /\ swept' = NoSweep
  /\ notice' = NoNotice
  /\ UNCHANGED <<storeVars, active_clients, connected, spc, sinfo, delivered,
                 monVars, checksLeft, adminLeft>>

\* A caller reads an account from the store by id or phone.
Fetch(s, a) ==
  /\ spc[s] = "idle"
  /\ callsLeft > 0
  /\ callsLeft' = callsLeft - 1
  /\ Exists(a)
  /\ held' = [held EXCEPT ![s] = Obj(a)]
  /\ Silent
  /\ UNCHANGED <<storeVars, active_clients, connected, spc, sinfo, delivered,
                 monVars, checksLeft, adminLeft>>

\* The return of send_message: ret is the value, why the path taken.
Return(s, info, ret, why) ==
  /\ spc' = [spc EXCEPT ![s] = "idle"]
  /\ sinfo' = [sinfo EXCEPT ![s] = NoSend]
  /\ lastSend' = [by |-> s, id |-> info.id, pre |-> info.pre, sent |-> info.sent,
                  recs |-> info.recs, ret |-> ret, why |-> why]

\* A send_message that goes on to the remote send without the safety check.
NoSafetyGate(s, info) ==
  /\ spc' = [spc EXCEPT ![s] = "send"]
  /\ sinfo' = [sinfo EXCEPT ![s] = info]
  /\ lastSend' = NoSent

\* send_message: "Check safety", then the call awaits client.send_message.
SafetyGate(s, info) ==
  IF can_send_message(held[s])
    THEN /\ spc' = [spc EXCEPT ![s] = "send"]
         /\ sinfo' = [sinfo EXCEPT ![s] = info]
         /\ lastSend' = NoSent
    ELSE Return(s, info, "false", "ineligible")

\* send_message(account, ...) up to its first await.
SendStart(s) ==
  /\ spc[s] = "idle"
  /\ held[s] # NoAccount
  /\ callsLeft > 0
  /\ callsLeft' = callsLeft - 1
  /\ LET a == held[s].id
         info == [NoSend EXCEPT !.id = a, !.pre = status[a]]
     IN IF active_clients[a] # NoClient
          THEN SafetyGate(s, info)
          ELSE /\ spc' = [spc EXCEPT ![s] = "connect"]
               /\ sinfo' = [sinfo EXCEPT ![s] = info]
               /\ lastSend' = NoSent
  /\ mgrResult' = NoResult
  /\ last' = NoCall
  /\ swept' = NoSweep
  /\ notice' = NoNotice
  /\ UNCHANGED <<storeVars, active_clients, connected, held, delivered,
                 monVars, checksLeft, adminLeft>>

\* send_message after await client.connect().
SendConnect(s, o) ==
  /\ spc[s] = "connect"
  /\ LET a == held[s].id IN
     IF o = "true"
       THEN /\ active_clients' = [active_clients EXCEPT ![a] = s]
            /\ connected' = [connected EXCEPT ![a] = @ \cup {s}]
            /\ SafetyGate(s, sinfo[s])
       ELSE /\ Return(s, sinfo[s], "false", "connect_" \o o)
            /\ UNCHANGED <<active_clients, connected>>
  /\ mgrResult' = NoResult
  /\ last' = NoCall
  /\ swept' = NoSweep
  /\ notice' = NoNotice
  /\ UNCHANGED <<storeVars, held, delivered, monVars, budgetVars>>

\* An update of the account stats that does not look at success.
ConfirmedAlways(o) == TRUE

\* send_message: if success
Confirmed(o) == o = "ok"

\* send_message after await client.send_message(username, text).
SendRemote(s, o) ==
  /\ spc[s] = "send"
  /\ LET a == held[s].id
         info == [sinfo[s] EXCEPT !.sent = (o = "ok")]
     IN /\ delivered' = [delivered EXCEPT ![a] = IF o = "ok" THEN @ + 1 ELSE @]
        /\ IF Confirmed(o)
             THEN /\ spc' = [spc EXCEPT ![s] = "record"]
                  /\ sinfo' = [sinfo EXCEPT ![s] = info]
                  /\ lastSend' = NoSent
             ELSE Return(s, info, "false", "remote_" \o o)
  /\ mgrResult' = NoResult
  /\ last' = NoCall
  /\ swept' = NoSweep
  /\ notice' = NoNotice
  /\ UNCHANGED <<storeVars, active_clients, connected, held, monVars, budgetVars>>

\* send_message, "Update account stats": increment_messages (w is what the
\* store write does), then record_message (r), then return success.
SendRecord(s, w, r) ==
  /\ spc[s] = "record"
  /\ LET a == held[s].id
         info == [sinfo[s] EXCEPT !.recs = @ + 1]
     IN IF w = "raise"
          THEN /\ Return(s, sinfo[s], "false", "store_raise")
               /\ UNCHANGED <<daily_messages, held>>
          ELSE /\ daily_messages' = increment_messages(daily_messages, a)
               /\ IF r = "raise"
                    THEN /\ Return(s, info, "false", "record_raise")
                         /\ UNCHANGED held
                    ELSE /\ Return(s, info, IF info.sent THEN "true" ELSE "false", "done")
                         /\ held' = [held EXCEPT ![s] = record_message(@)]
  /\ mgrResult' = NoResult
  /\ last' = NoCall
  /\ swept' = NoSweep
  /\ notice' = NoNotice
  /\ UNCHANGED <<status, session_string, active_clients, connected, delivered,
                 monVars, budgetVars>>

\* ------------------------------------------------------ specification
\* The program between calls: account 1 is enrolled and authorized and is
\* active; account 2 is enrolled (second) or not; earlier checks of account 1
\* have left errs in the error counter (0: no entry), earlier sends have
\* left its daily count at sentToday.  Nothing is cached or in progress.
Start(second, errs, sentToday) ==
  /\ status = [a \in Ids |-> IF a = 1 \/ second THEN ACTIVE ELSE NoRow]
  /\ daily_messages = [a \in Ids |-> IF a = 1 THEN sentToday ELSE 0]
  /\ session_string = [a \in Ids |-> a = 1]
  /\ active_clients = [a \in Ids |-> NoClient]
  /\ connected = [a \in Ids |-> {}]
  /\ spc = [s \in Senders |-> "idle"]
  /\ held = [s \in Senders |-> NoAccount]
  /\ sinfo = [s \in Senders |-> NoSend]
  /\ delivered = [a \in Ids |-> IF a = 1 THEN sentToday ELSE 0]
  /\ error_counts = IF errs = 0 THEN << >> ELSE [a \in {1} |-> errs]
  /\ mpc = [k \in Checkers |-> "idle"]
  /\ cur = [k \in Checkers |-> NoAccount]
  /\ sweeping = [k \in Checkers |-> FALSE]
  /\ queue = [k \in Checkers |-> << >>]
  /\ stats = [k \in Checkers |-> NoStats]
  /\ mgrResult = NoResult
  /\ lastSend = NoSent
  /\ last = NoCall
  /\ swept = NoSweep
  /\ notice = NoNotice
  /\ streak = [a \in Ids |-> IF a = 1 THEN errs ELSE 0]

Init ==
  /\ \E errs \in {0, 2} : Start(FALSE, errs, 0)
  /\ checksLeft = AllChecks
  /\ callsLeft = AllCalls
  /\ adminLeft = AllAdmin

InitMon ==
  /\ Start(TRUE, 0, 0)
  /\ checksLeft = MaxChecks
  /\ callsLeft = 0
  /\ adminLeft = MaxAdmin

InitSend ==
  /\ \E second \in BOOLEAN, sentToday \in {MAX_DAILY_MESSAGES - 1, MAX_DAILY_MESSAGES} :
       Start(second, 0, sentToday)
  /\ checksLeft = 0
  /\ callsLeft = MaxCalls
  /\ adminLeft = MaxAdmin

EnrollStep ==
  \/ \E a \in Ids, o \in ConnectOutcomes : Enroll(a, o)
  \/ \E a \in Ids, o \in ConnectOutcomes : Authorize(a, o)

SendStep ==
  \/ \E s \in Senders : Select(s)
  \/ \E s \in Senders, a \in Ids : Fetch(s, a)
  \/ \E s \in Senders : SendStart(s)
  \/ \E s \in Senders, o \in ConnectOutcomes : SendConnect(s, o)
  \/ \E s \in Senders, o \in RemoteOutcomes : SendRemote(s, o)
  \/ \E s \in Senders, w \in WriteOutcomes, r \in WriteOutcomes : SendRecord(s, w, r)

MonitorStep ==
  \/ \E k \in Checkers, a \in Ids : CheckCall(k, a)
  \/ \E k \in Checkers, o \in CheckOutcomes, d \in DisconnectOutcomes : CheckProbe(k, o, d)
  \/ \E k \in Checkers, d \in DisconnectOutcomes : MarkBlocked(k, d)
  \/ \E k \in Checkers, d \in DisconnectOutcomes : MarkDisabled(k, d)
  \/ \E k \in Checkers : SweepStart(k)
  \/ \E k \in Checkers : SweepNext(k)

AdminStep ==
  \/ \E a \in Ids, st \in AccountStatus : UpdateStatus(a, st)
  \/ \E a \in Ids : ExternalDelete(a)

Next == EnrollStep \/ SendStep \/ MonitorStep \/ AdminStep

NextMon == MonitorStep \/ AdminStep

NextSend == SendStep \/ AdminStep

\* The whole program.
Spec == Init /\ [][Next]_vars

\* The health monitor and the administrative operations.
SpecMon == InitMon /\ [][NextMon]_vars

\* The account manager's sends and the administrative operations.
SpecSend == InitSend /\ [][NextSend]_vars

\* ------------------------------------------------------------- claims
\* streak[a] counts the check_account calls for a that raised a non-terminal
\* error since the last successful probe of a and since a last entered
\* blocked or disabled through the monitor: the calls "in a row".

\* C1: for an account that is in the store with status active, the first and
\* the second check_account call in a row that raise a non-terminal error end
\* with the stored status still active; the third goes on to mark the account,
\* and when that call ends the stored status is disabled and the error-counter
\* map has no entry for the account.
C1_ThirdFailureDisables ==
  [][\A k \in Checkers :
       /\ ((\E d \in DisconnectOutcomes : CheckProbe(k, "error", d)) /\ status[cur[k].id] = ACTIVE)
            => IF streak'[cur[k].id] < 3
                 THEN status'[cur[k].id] = ACTIVE /\ last'.by = k /\ last'.id = cur[k].id
                 ELSE mpc'[k] = "markD" /\ last' = NoCall
       /\ ((\E d \in DisconnectOutcomes : MarkDisabled(k, d)) /\ Exists(cur[k].id))
            => /\ status'[cur[k].id] = DISABLED
               /\ cur[k].id \notin DOMAIN error_counts'
               /\ last'.by = k /\ last'.id = cur[k].id
     ]_vars

\* C1, witness: a check_account call has just ended that raised the third
\* non-terminal error in a row; the account is disabled, its counter entry gone.
C1_Witness ==
  /\ last.outcome = "error"
  /\ last.before = 3
  /\ last.id = 1
  /\ notice = <<"disabled", 1>>
  /\ status[1] = DISABLED
  /\ 1 \notin DOMAIN error_counts

\* C2: a check_account call whose probe raises a terminal signal marks the
\* account whatever its counter entry is (absent, 1 or 2); when the call ends,
\* the stored status of an account that is in the store is blocked, the map has
\* no entry for it, and the call has returned false.
C2_TerminalBlocks ==
  [][\A k \in Checkers :
       /\ (\E d \in DisconnectOutcomes : CheckProbe(k, "terminal", d))
            => mpc'[k] = "markB" /\ status' = status
       /\ ((\E d \in DisconnectOutcomes : MarkBlocked(k, d)) /\ Exists(cur[k].id))
            => /\ status'[cur[k].id] = BLOCKED
               /\ cur[k].id \notin DOMAIN error_counts'
               /\ last'.by = k /\ last'.id = cur[k].id
               /\ last'.ret = "false"
     ]_vars

\* C2, the store and the counter alone: the call that met a terminal signal
\* ends with the account blocked and without counter entry, and it does not
\* return true.
C2_BlockedAndCleared ==
  [][\A k \in Checkers :
       ((\E d \in DisconnectOutcomes : MarkBlocked(k, d)) /\ Exists(cur[k].id))
         => /\ status'[cur[k].id] = BLOCKED
            /\ cur[k].id \notin DOMAIN error_counts'
            /\ last'.ret # "true"
     ]_vars

\* C3: a check_account call whose probe succeeds removes the account's counter
\* entry, writes no status and returns true; and a call that raises a
\* non-terminal error marks the account disabled only when it is the third in
\* a row since that success.
C3_SuccessResets ==
  [][\A k \in Checkers :
       /\ (\E d \in DisconnectOutcomes : CheckProbe(k, "ok", d))
            => /\ cur[k].id \notin DOMAIN error_counts'
               /\ status' = status
               /\ last'.by = k /\ last'.id = cur[k].id
               /\ last'.ret = "true"
       /\ (\E d \in DisconnectOutcomes : CheckProbe(k, "error", d))
            => /\ status' = status
               /\ (mpc'[k] = "markD") = (streak'[cur[k].id] >= 3)
     ]_vars

\* C3, the store and the counter alone: a successful probe removes the entry
\* and writes no status, the call does not return false, and a later failure
\* escalates exactly when it is the third in a row.
C3_EntryRemoved ==
  [][\A k \in Checkers :
       /\ (\E d \in DisconnectOutcomes : CheckProbe(k, "ok", d))
            => /\ cur[k].id \notin DOMAIN error_counts'
               /\ status' = status
               /\ last'.ret # "false"
       /\ (\E d \in DisconnectOutcomes : CheckProbe(k, "error", d))
            => /\ status' = status
               /\ (mpc'[k] = "markD") = (streak'[cur[k].id] >= 3)
     ]_vars

InFlight(s) == spc[s] \in {"send", "record"}   \* past the eligibility check

\* C4: when the remote session's send raises a terminal signal during
\* send_message for an account whose stored status is active, the stored status
\* is blocked when send_message returns false.
C4_SendTerminalBlocks ==
  [][\A s \in Senders :
       (SendRemote(s, "terminal") /\ status[held[s].id] = ACTIVE)
         => status'[held[s].id] = BLOCKED /\ lastSend'.ret = "false"
     ]_vars

\* C5: sends for one account are serialized: no two sends for the same account
\* are past the eligibility check with the same pre-send daily count, and so
\* neither the number of messages the remote session sent for an account nor
\* its stored daily count exceeds the daily cap.
C5_SendsSerialized ==
  /\ \A s, t \in Senders :
       (s # t /\ InFlight(s) /\ InFlight(t) /\ held[s].id = held[t].id)
         => held[s].daily_messages # held[t].daily_messages
  /\ \A a \in Ids :
       delivered[a] <= MAX_DAILY_MESSAGES /\ daily_messages[a] <= MAX_DAILY_MESSAGES

\* C5, the consequence alone: the counts stay within the cap.
C5_CapRespected ==
  \A a \in Ids : delivered[a] <= MAX_DAILY_MESSAGES /\ daily_messages[a] <= MAX_DAILY_MESSAGES

\* C6: a send_message call that starts when the account's stored status is
\* blocked or disabled never gets to the remote send, also when the caller read
\* the account before the status changed.
C6_NoSendWhenNotActive ==
  \A s \in Senders : spc[s] = "send" => sinfo[s].pre = ACTIVE

\* C7: an active account whose daily count is cap-1 is eligible, and a
\* send_message call for it whose remote send succeeds returns true and leaves
\* the stored count at the cap; the account is then not eligible and is not
\* what get_available_account returns.
C7_LastSendBelowCap ==
  [][\A s \in Senders :
       /\ (held[s].status = ACTIVE /\ held[s].daily_messages = MAX_DAILY_MESSAGES - 1)
            => is_available(held[s]) /\ can_send_message(held[s])
       /\ (/\ \E w, r \in WriteOutcomes : SendRecord(s, w, r)
           /\ sinfo[s].sent
           /\ status[held[s].id] = ACTIVE
           /\ daily_messages[held[s].id] = MAX_DAILY_MESSAGES - 1
           /\ held[s].daily_messages = MAX_DAILY_MESSAGES - 1)
            => /\ lastSend'.by = s /\ lastSend'.ret = "true"
               /\ daily_messages'[held[s].id] = MAX_DAILY_MESSAGES
               /\ ~is_available(Obj(held[s].id)')
               /\ ~can_send_message(held'[s])
               /\ get_available_account'.id # held[s].id
     ]_vars

\* C7, when the store write and record_message succeed: the send at cap-1
\* returns true, the stored count is the cap, the account is no longer
\* eligible or selected, and no call gets past the eligibility check with an
\* account object that is not eligible.
C7_WhenRecorded ==
  [][\A s \in Senders :
       /\ (InFlight(s) \/ InFlight(s)') => is_available(held[s]) /\ can_send_message(held[s])
       /\ (/\ SendRecord(s, "ok", "ok")
           /\ sinfo[s].sent
           /\ status[held[s].id] = ACTIVE
           /\ daily_messages[held[s].id] = MAX_DAILY_MESSAGES - 1
           /\ held[s].daily_messages = MAX_DAILY_MESSAGES - 1)
            => /\ lastSend'.by = s /\ lastSend'.ret = "true"
               /\ daily_messages'[held[s].id] = MAX_DAILY_MESSAGES
               /\ ~is_available(Obj(held[s].id)')
               /\ ~is_available(held'[s]) /\ ~can_send_message(held'[s])
               /\ get_available_account'.id # held[s].id
       /\ (/\ \/ SendStart(s) /\ active_clients[held[s].id] # NoClient
              \/ SendConnect(s, "true")
           /\ held[s].daily_messages >= MAX_DAILY_MESSAGES)
            => /\ lastSend'.by = s /\ lastSend'.ret = "false" /\ ~lastSend'.sent
               /\ delivered' = delivered
     ]_vars

\* C8: record_message is called at most once in a send_message call, only
\* after the remote send reported success, and not at all in a call that ends
\* because the account is not eligible, the connect fails, or the remote send
\* returns false or raises.
C8_RecordOnlyAfterSuccess ==
  /\ \A s \in Senders : sinfo[s].recs = 0
  /\ lastSend.recs <= 1
  /\ lastSend.recs = 1 => lastSend.sent
  /\ lastSend.why \in {"ineligible", "connect_false", "connect_raise", "remote_false",
                       "remote_terminal", "remote_error"} => lastSend.recs = 0

\* C8, witness: a send has just returned true after its one record_message.
C8_Witness ==
  /\ lastSend.why = "done"
  /\ lastSend.sent
  /\ lastSend.recs = 1
  /\ lastSend.ret = "true"

\* C9: a send_message call adds one to the stored daily count of an account
\* that is in the store when the remote send reported success and nothing
\* otherwise, and returns true exactly when the message was sent and the count
\* incremented, also when the store write or record_message fails.
C9_OneSendOneIncrement ==
  [][\A s \in Senders :
       (lastSend'.by = s /\ Exists(lastSend'.id))
         => /\ daily_messages'[lastSend'.id]
                 = daily_messages[lastSend'.id] + (IF lastSend'.sent THEN 1 ELSE 0)
            /\ (lastSend'.ret = "true")
                 = (lastSend'.sent /\ daily_messages'[lastSend'.id] = daily_messages[lastSend'.id] + 1)
     ]_vars

\* C10: no step other than the administrative update_account_status changes
\* an account's stored status from disabled or blocked to active.
C10_NoAutomaticReactivation ==
  [][\A a \in Ids :
       (status[a] \in {DISABLED, BLOCKED} /\ status'[a] = ACTIVE) => UpdateStatus(a, ACTIVE)
     ]_vars

\* C10, witness: a check_account call on a blocked account has just succeeded
\* and the account is still blocked.
C10_Witness ==
  /\ last.outcome = "ok"
  /\ last.ret = "true"
  /\ last.id = 1
  /\ status[1] = BLOCKED

\* C11: check_all_accounts sets total to the number of accounts that are
\* active in the store when it reads them and never changes it afterwards;
\* the tally a sweep returns has total = active + disabled + blocked.
C11_TallyAddsUp ==
  [][\A k \in Checkers :
       /\ SweepStart(k)
            => /\ stats'[k].total = Len(get_active_accounts)
               /\ queue'[k] = get_active_accounts
       /\ (sweeping[k] /\ sweeping'[k]) => stats'[k].total = stats[k].total
       /\ (swept'.by = k /\ swept'.ret = "returned")
            => /\ sweeping[k]
               /\ swept'.tally.total = stats[k].total
               /\ swept'.tally.total
                    = swept'.tally.active + swept'.tally.disabled + swept'.tally.blocked
     ]_vars

\* C11, witness: a sweep that read one active account has just returned its
\* tally, and a second account has become active since the read.
C11_Witness ==
  /\ swept.ret = "returned"
  /\ swept.tally.total = 1
  /\ swept.tally.active = 1
  /\ Len(get_active_accounts) = 2

\* C12: a sweep tallies each account it has checked by the status the store
\* holds for it after the check: blocked when that status is blocked, disabled
\* when it is disabled, active when it is still active.
C12_TallyByStoredStatus ==
  [][\A k \in Checkers :
       (sweeping[k] /\ last'.by = k /\ last'.ret # "raised")
         => LET a == last'.id IN
            /\ status'[a] = ACTIVE => stats'[k].active = stats[k].active + 1
            /\ status'[a] = BLOCKED => stats'[k].blocked = stats[k].blocked + 1
            /\ status'[a] = DISABLED => stats'[k].disabled = stats[k].disabled + 1
     ]_vars

\* Position i of the store's list of active accounts holds an account with
\* status active and a daily count below the cap.
BelowCapAt(i) ==
  /\ get_active_accounts[i].status = ACTIVE
  /\ get_active_accounts[i].daily_messages < MAX_DAILY_MESSAGES

\* C13: get_available_account changes neither the store nor the cache of
\* live clients nor a counter; it returns the first account of the store's
\* list of active accounts that is active with a daily count below the cap, or
\* None when there is none; and a second call right after it returns the same.
C13_SelectIsPure ==
  [][\A s \in Senders :
       Select(s)
         => /\ UNCHANGED <<storeVars, active_clients, connected, delivered, error_counts>>
            /\ get_available_account' = held'[s]
            /\ LET n == Len(get_active_accounts) IN
               IF \E i \in 1..n : BelowCapAt(i)
                 THEN \E i \in 1..n : /\ BelowCapAt(i)
                                      /\ \A j \in 1..(i - 1) : ~BelowCapAt(j)
                                      /\ held'[s] = get_active_accounts[i]
                 ELSE held'[s] = NoAccount
     ]_vars

\* C13, witness: get_available_account has just passed over account 1, which
\* is active and at the cap, and returned account 2.
C13_Witness ==
  /\ mgrResult = <<"select", 2, "account">>
  /\ status[1] = ACTIVE
  /\ daily_messages[1] >= MAX_DAILY_MESSAGES
  /\ get_available_account.id = 2

\* C14: get_available_account never returns an account for which no session
\* credential has been stored.
C14_UnauthorizedNotSelected ==
  (mgrResult[1] = "select" /\ mgrResult[3] = "account") => session_string[mgrResult[2]]

\* C15: authorize_account for an enrolled account whose session connects and
\* exchanges the code for a credential stores the credential, returns true and
\* leaves the status as it is; when the session refuses or the account does
\* not exist it returns false and the stored credential is unchanged.
C15_AuthorizeStoresCredential ==
  [][\A a \in Ids :
       /\ (Authorize(a, "true") /\ Exists(a))
            => /\ session_string'[a]
               /\ mgrResult' = <<"authorize", a, "true">>
               /\ status' = status
       /\ ((\E o \in ConnectOutcomes : Authorize(a, o) /\ (o # "true" \/ ~Exists(a))))
            => /\ session_string' = session_string
               /\ mgrResult' = <<"authorize", a, "false">>
     ]_vars

\* C16: no exception escapes send_message, check_account or
\* check_all_accounts: whatever the remote session does, the first two return
\* a boolean and the sweep returns its tally.
C16_NoExceptionEscapes ==
  /\ lastSend.ret \in {"none", "true", "false"}
  /\ last.ret \in {"none", "true", "false"}
  /\ swept.ret \in {"none", "returned"}

\* C17: every check_account call that returns has disconnected its client
\* before, whichever way the probe went: success, connect returning false,
\* empty result, terminal signal, non-terminal error with or without marking
\* the account disabled.
C17_DisconnectBeforeReturn ==
  last.ret \in {"true", "false"} => last.closed

\* C17, witness: the call that raised the third non-terminal error and marked
\* the account disabled has returned false with its client disconnected.
C17_Witness ==
  /\ last.outcome = "error"
  /\ last.before = 3
  /\ last.ret = "false"
  /\ last.closed
  /\ status[last.id] = DISABLED

\* C18: the manager has at most one connected client per account id, under
\* any interleaving of send_message calls, and the cached client is that one.
C18_OneLiveSession ==
  \A a \in Ids :
    /\ Cardinality(connected[a]) <= 1
    /\ active_clients[a] # NoClient => connected[a] = {active_clients[a]}

\* C19: when the remote send of a send_message call returns false or raises,
\* the account's entry is removed from the cache of live clients.
C19_DroppedOnFailure ==
  [][\A s \in Senders :
       (\E o \in RemoteOutcomes \ {"ok"} : SendRemote(s, o))
         => active_clients'[held[s].id] = NoClient
     ]_vars

\* C20: no step of check_account or check_all_accounts changes the manager's
\* cache of live clients, and no step of add_account, authorize_account,
\* get_available_account, send_message or update_account_status changes the
\* monitor's error counters.
C20_OwnState ==
  [][/\ (active_clients' # active_clients \/ connected' # connected) => ~MonitorStep
     /\ error_counts' # error_counts
          => ~(EnrollStep \/ SendStep \/ (\E a \in Ids, st \in AccountStatus : UpdateStatus(a, st)))
     ]_vars

\* C20, witness: a check_account call has just ended, with a counter entry,
\* for an account whose client the manager has cached.
C20_Witness ==
  /\ last.by # "none"
  /\ last.id \in DOMAIN error_counts
  /\ active_clients[last.id] \in Senders
  /\ connected[last.id] # {}

\* C21: a send_message call with an account object that the safety policy
\* rejects never gets to the remote send: the steps of such a call leave the
\* store (daily count and every other column) and the account object
\* unchanged and send no message, and the call ends returning false without
\* a remote send or a record_message.
C21_RejectedSendDoesNothing ==
  [][\A s \in Senders :
       /\ (InFlight(s) \/ InFlight(s)') => can_send_message(held[s])
       /\ (/\ ~can_send_message(held[s])
           /\ SendStart(s) \/ (\E o \in ConnectOutcomes : SendConnect(s, o)))
            => /\ UNCHANGED <<storeVars, held, delivered>>
               /\ spc'[s] \in {"idle", "connect"}
               /\ spc'[s] = "idle"
                    => /\ lastSend'.by = s
                       /\ lastSend'.ret = "false"
                       /\ ~lastSend'.sent
                       /\ lastSend'.recs = 0
     ]_vars

\* C21, witness: a send_message call for an account object at the daily cap
\* has just returned false at the safety check.
C21_Witness ==
  /\ lastSend.why = "ineligible"
  /\ lastSend.ret = "false"
  /\ ~lastSend.sent
  /\ held[lastSend.by].status = ACTIVE
  /\ held[lastSend.by].daily_messages >= MAX_DAILY_MESSAGES

\* C22: no step of check_account or check_all_accounts changes the stored
\* status of an account that is blocked; a blocked account is not marked
\* disabled by later non-terminal failures.
C22_BlockedStaysBlocked ==
  [][\A a \in Ids :
       (status[a] = BLOCKED /\ status'[a] # BLOCKED) => ~MonitorStep
     ]_vars

\* C23: whenever no check_account call is in progress, every entry of the
\* error-counter map is 1 or 2.
C23_CountsBelowThreshold ==
  (\A k \in Checkers : mpc[k] \notin {"probe", "markB", "markD"})
    => \A a \in DOMAIN error_counts : error_counts[a] \in {1, 2}

\* C24: a check_account call whose connect returns false, or whose probe
\* returns an empty result, returns false and changes neither the error
\* counters nor any stored status.
C24_QuietFailure ==
  [][\A k \in Checkers :
       (\E o \in {"connect_false", "empty"}, d \in DisconnectOutcomes : CheckProbe(k, o, d))
         => /\ UNCHANGED <<error_counts, status>>
            /\ last'.by = k
            /\ last'.ret = "false"
     ]_vars

\* C24, the store and the counters alone: such a call changes neither, and it
\* does not return true.
C24_NothingCounted ==
  [][\A k \in Checkers :
       (\E o \in {"connect_false", "empty"}, d \in DisconnectOutcomes : CheckProbe(k, o, d))
         => /\ UNCHANGED <<error_counts, status, streak>>
            /\ last'.by = k
            /\ last'.ret # "true"
     ]_vars

====
